---- MODULE Spec2Model ----
(***************************************************************************)
(* The colour assignment of the dashboard pages: every page aggregates a   *)
(* table into (label, value) entries, orders them, gives the top entry an  *)
(* accent colour and the others a graded colour, and hands labels, values  *)
(* and colours to the chart.                                               *)
(*                                                                         *)
(*   p03   pages/03 (MBTI)        create_mbti_bar_chart (value based)      *)
(*   p04   pages/04 (subway)      make_blue_gradient    (rank based)       *)
(*   p06   pages/06 (vaccine)     the colors loop       (value based)      *)
(*   p08r  pages/08 (vaccine 3)   get_color             (fixed palette)    *)
(*   p08c  pages/08 (vaccine 3)   get_cumulative_color  (fixed palette)    *)
(*                                                                         *)
(* Values are integers.  A Python float quotient is kept exactly, as the   *)
(* record [calc, num, den, eps] that stands for num / (den + eps * 1e-9),  *)
(* and int() of a quotient is Trunc.                                       *)
(***************************************************************************)
EXTENDS Integers, Sequences, FiniteSets

VARIABLES page, entries, pc, order, colors, ts, err, chart

\* The loading stage of pages 04 and 06: the script and its position, which
\* reads of the preferred paths succeed, the loop of
\* try_read_csv_from_paths, the loaded table, and what the page has shown.
VARIABLES lp, lpc, readable, pi, ei, tried, df, used_path, used_enc, uploaded, msgs

\* the cells of one column of the CSV file on their way to the colour code:
\* the page, its position, the column's class, the file's fields and the
\* values the ranking and colouring stage receives
VARIABLES cp, cpc, col, raw, reaching

colourVars == <<page, entries, pc, order, colors, ts, err, chart>>
loadVars == <<lp, lpc, readable, pi, ei, tried, df, used_path, used_enc, uploaded, msgs>>
coerceVars == <<cp, cpc, col, raw, reaching>>

vars == <<colourVars, loadVars, coerceVars>>

\* Bounds of the model.
MaxLen == 5
MaxVal == 1
MaxNeg == 1
MaxRows == 2

Pages == {"p03", "p04", "p06", "p08r", "p08c"}
Values == (0 - MaxNeg)..MaxVal

\* The five rates of page 08 and its three cumulative counts.
NRates == 5
NCumulative == 3

SeqsOfLen(n) == [1..n -> Values]
SeqsUpTo(n) == UNION {SeqsOfLen(k) : k \in 0..n}

---------------------------------------------------------------------------
\* Helpers: Python built-ins and pandas operations the pages use.

Max2(a, b) == IF a >= b THEN a ELSE b
Min2(a, b) == IF a <= b THEN a ELSE b

\* int(a / b) for b > 0: truncation toward zero
Trunc(a, b) == IF a >= 0 THEN a \div b ELSE 0 - ((0 - a) \div b)

SeqMax(s) == CHOOSE m \in {s[k] : k \in DOMAIN s} : \A k \in DOMAIN s : s[k] <= m

\* Series.idxmax(): the first position holding the maximum
IdxMax(s) == CHOOSE k \in DOMAIN s : s[k] = SeqMax(s) /\ \A j \in 1..(k - 1) : s[j] < s[k]

\* s[::-1]
Reverse(s) == [k \in 1..Len(s) |-> s[Len(s) + 1 - k]]

\* df.head(k)
DfHead(s, k) == SubSeq(s, 1, Min2(k, Len(s)))

\* sort_values(ascending=False) with the default (unstable) sort kind: every
\* ordering of the labels with non-increasing values is a possible outcome.
RECURSIVE DescOrders(_, _)
DescOrders(v, left) ==
  IF left = {} THEN {<<>>}
  ELSE LET m == CHOOSE x \in {v[l] : l \in left} : \A l \in left : v[l] <= x
       IN UNION {{<<l>> \o rest : rest \in DescOrders(v, left \ {l})} :
                 l \in {l \in left : v[l] = m}}

SortValuesDesc(v) == DescOrders(v, DOMAIN v)

\* the values in the order handed to the colour computation
ValsOf(v, ord) == [k \in 1..Len(ord) |-> v[ord[k]]]

\* A quotient num / (den + eps * 1e-9); NoT marks an entry for which no
\* interpolation parameter is computed.
T(n, d, e) == [calc |-> TRUE, num |-> n, den |-> d, eps |-> e]
NoT == [calc |-> FALSE, num |-> 0, den |-> 1, eps |-> 0]

\* Python raises ZeroDivisionError when the divisor is exactly 0
DivByZero(tseq) == \E k \in DOMAIN tseq : tseq[k].calc /\ tseq[k].den = 0 /\ tseq[k].eps = 0

\* Colours: the format and the numbers formatted into it.
Color(fmt, c) == [fmt |-> fmt, c |-> c]

EmptyChart == [x |-> <<>>, y |-> <<>>, marker_color |-> <<>>]

\* A loaded table: None, or the DataFrame read from src with encoding enc.
NoneDf == [valid |-> FALSE, src |-> "None", enc |-> "None"]
DataFrame(src, enc) == [valid |-> TRUE, src |-> src, enc |-> enc]

---------------------------------------------------------------------------
\* Page 04: make_blue_gradient(n), rank based.

TopN == 10

Start04 == <<0, 51, 204>>
End04 == <<204, 229, 255>>

Hex(r, g, b) == Color("#rrggbb", <<r, g, b>>)
Red04 == Hex(255, 0, 0)

\* range(n-1): the loop indices
LoopRange04(n) == 0..(n - 2)

\* RankT dividing by the number of remaining entries, n-1
RankT_offbyone(i, n) == T(i, Max2(1, n - 1), 0)

\* RankT dividing by n-2 itself
RankT_unclamped(i, n) == T(i, n - 2, 0)

\* t = i / max(1, n-2)
RankT(i, n) == T(i, Max2(1, n - 2), 0)

\* Channel with the two endpoints exchanged
Channel_swapped(s, e, t) == Trunc(e * t.den + (s - e) * t.num, t.den)

\* int(start + (end - start) * t)
Channel(s, e, t) == Trunc(s * t.den + (e - s) * t.num, t.den)

GradientColor(t) ==
  Hex(Channel(Start04[1], End04[1], t),
      Channel(Start04[2], End04[2], t),
      Channel(Start04[3], End04[3], t))

\* make_blue_gradient without its n <= 0 return
MakeBlueGradientTs_unguarded(n) ==
  IF n = 1 THEN <<NoT>>
  ELSE <<NoT>> \o [j \in 1..Cardinality(LoopRange04(n)) |-> RankT(j - 1, n)]

\* the interpolation parameter of every colour make_blue_gradient(n) returns
MakeBlueGradientTs(n) ==
  IF n <= 0 THEN <<>>
  ELSE IF n = 1 THEN <<NoT>>
  ELSE <<NoT>> \o [j \in 1..Cardinality(LoopRange04(n)) |-> RankT(j - 1, n)]

MakeBlueGradient(n) ==
  LET tsq == MakeBlueGradientTs(n)
  IN [k \in 1..Len(tsq) |-> IF tsq[k].calc THEN GradientColor(tsq[k]) ELSE Red04]

\* the bars reversed and the colours not
Figure04_unreversed(ord, vals, cols) ==
  [x |-> Reverse(ord), y |-> Reverse(vals), marker_color |-> cols]

\* go.Bar(x=..[::-1], y=..[::-1], marker_color=colors[::-1])
Figure04(ord, vals, cols) ==
  [x |-> Reverse(ord), y |-> Reverse(vals), marker_color |-> Reverse(cols)]

---------------------------------------------------------------------------
\* Page 06 (second app): the colors loop, value based.

Red06 == Color("red", <<>>)
Rgb(r, g, b) == Color("rgb", <<r, g, b>>)

\* a strict comparison in place of val == max_total
IsTop06_strict(val, max_total) == val > max_total

\* val == max_total
IsTop06(val, max_total) == val = max_total

\* the quotient q of intensity = 0.3 + 0.7 * q: val / max_total if
\* max_total > 0, and intensity is 0.3 otherwise
Intensity06(val, max_total) ==
  IF max_total > 0 THEN T(val, max_total, 0) ELSE T(0, 1, 0)

\* int(255 * (0.3 + 0.7 * q))
BlueLevel(q) == Trunc(255 * (3 * q.den + 7 * q.num), 10 * q.den)

ColorsTs06(totals) ==
  IF totals = <<>> THEN <<>>
  ELSE LET max_total == SeqMax(totals)
       IN [k \in 1..Len(totals) |->
             IF IsTop06(totals[k], max_total) THEN NoT
             ELSE Intensity06(totals[k], max_total)]

Colors06(totals) ==
  LET tsq == ColorsTs06(totals)
  IN [k \in 1..Len(tsq) |-> IF tsq[k].calc THEN Rgb(0, 0, BlueLevel(tsq[k])) ELSE Red06]

\* px.bar(dose_df, ...) and update_traces(marker_color=colors)
Figure06(ord, vals, cols) == [x |-> ord, y |-> vals, marker_color |-> cols]

---------------------------------------------------------------------------
\* Page 03: create_mbti_bar_chart, value based.

Crimson03 == Rgb(220, 20, 60)

\* ratio_norm = (ratios[i] - ratios[n_bars-1]) / (ratios[1] - ratios[n_bars-1] + 1e-9)
\* for the Python index i, the position i + 1 here
RatioNorm(ratios, i) ==
  T(ratios[i + 1] - ratios[Len(ratios)], ratios[2] - ratios[Len(ratios)], 1)

\* L = 50 + (1 - ratio_norm) * 30, the quotient
\* (num + numeps * 1e-9) / (den + eps * 1e-9) kept by its four integers
Lightness(t) == <<80 * t.den - 30 * t.num, 80 * t.eps, t.den, t.eps>>

Hsl(h, s, l) == Color("hsl", <<h, s>> \o l)

CreateMbtiTs(ratios) ==
  LET n_bars == Len(ratios)
  IN <<NoT>> \o (IF n_bars > 1 THEN [j \in 1..(n_bars - 1) |-> RatioNorm(ratios, j)]
                 ELSE <<>>)

CreateMbtiColors(ratios) ==
  LET tsq == CreateMbtiTs(ratios)
  IN [k \in 1..Len(tsq) |->
        IF tsq[k].calc THEN Hsl(220, 70, Lightness(tsq[k])) ELSE Crimson03]

\* go.Bar(x=mbti_types, y=ratios, marker_color=colors)
Figure03(ord, vals, cols) == [x |-> ord, y |-> vals, marker_color |-> cols]

---------------------------------------------------------------------------
\* Page 08: get_color and get_cumulative_color, a fixed palette per label.

HexUpper(r, g, b) == Color("#RRGGBB", <<r, g, b>>)
Red08 == HexUpper(255, 0, 0)

\* row.name is the row's position, label the row's dose (1..5 in the order
\* of rates_data)
GetColor(name, label, top_rate_idx) ==
  IF name = top_rate_idx THEN Red08
  ELSE IF label = 1 THEN HexUpper(44, 123, 182)
  ELSE IF label = 2 THEN HexUpper(127, 188, 210)
  ELSE IF label = 3 THEN HexUpper(179, 226, 205)
  ELSE IF label = 4 THEN HexUpper(253, 192, 134)
  ELSE HexUpper(240, 249, 232)

GetCumulativeColor(name, label, top_cumulative_idx) ==
  IF name = top_cumulative_idx THEN Red08
  ELSE IF label = 1 THEN HexUpper(44, 123, 182)
  ELSE IF label = 2 THEN HexUpper(127, 188, 210)
  ELSE HexUpper(179, 226, 205)

\* go.Bar(x=frame[label], y=frame[value], marker_color=frame[colour])
Figure08(ord, vals, cols) == [x |-> ord, y |-> vals, marker_color |-> cols]

---------------------------------------------------------------------------
\* The pages as a state machine: aggregate and order, colour, plot.

Vals == ValsOf(entries, order)

InputsOf(p) ==
  IF p = "p08r" THEN SeqsOfLen(NRates)
  ELSE IF p = "p08c" THEN SeqsOfLen(NCumulative)
  ELSE SeqsUpTo(MaxLen)

\* no colour computation runs
ColourIdle ==
  /\ page = "none" /\ entries = <<>> /\ pc = "idle" /\ order = <<>>
  /\ colors = <<>> /\ ts = <<>> /\ err = "none" /\ chart = EmptyChart

\* no loading stage runs
LoadIdle ==
  /\ lp = "none" /\ lpc = "idle" /\ readable = <<>> /\ pi = 0 /\ ei = 0
  /\ tried = <<>> /\ df = NoneDf /\ used_path = "None" /\ used_enc = "None"
  /\ uploaded = "None" /\ msgs = <<>>

\* no coercion runs
CoerceIdle ==
  cp = "none" /\ cpc = "idle" /\ col = "none" /\ raw = <<>> /\ reaching = <<>>

Init ==
  /\ LoadIdle
  /\ CoerceIdle
  /\ page \in Pages
  /\ entries \in InputsOf(page)
  /\ pc = "agg"
  /\ order = <<>>
  /\ colors = <<>>
  /\ ts = <<>>
  /\ err = "none"
  /\ chart = EmptyChart

\* the colour computation ends: with its colours, or with the exception of
\* a division by zero and no colours
Colored(tsq, cols) ==
  /\ ts' = tsq
  /\ IF DivByZero(tsq)
     THEN colors' = <<>> /\ err' = "ZeroDivisionError" /\ pc' = "failed"
     ELSE colors' = cols /\ err' = err /\ pc' = "plot"
  /\ UNCHANGED <<page, entries, order, chart>>
  /\ UNCHANGED <<loadVars, coerceVars>>

Plotted(fig) ==
  /\ chart' = fig
  /\ pc' = "done"
  /\ UNCHANGED <<page, entries, order, colors, ts, err>>
  /\ UNCHANGED <<loadVars, coerceVars>>

Ordered(ord) ==
  /\ order' = ord
  /\ pc' = "color"
  /\ UNCHANGED <<page, entries, colors, ts, err, chart>>
  /\ UNCHANGED <<loadVars, coerceVars>>

\* page 04: agg.sort_values(total column, ascending=False).head(10)
AggSorted04 ==
  /\ page = "p04" /\ pc = "agg"
  /\ \E ord \in SortValuesDesc(entries) : Ordered(DfHead(ord, TopN))

CallMakeBlueGradient04 ==
  /\ page = "p04" /\ pc = "color"
  /\ Colored(MakeBlueGradientTs(Len(order)), MakeBlueGradient(Len(order)))

PlotFigure04 ==
  /\ page = "p04" /\ pc = "plot"
  /\ Plotted(Figure04(order, Vals, colors))

\* page 06: dose_df.sort_values('total', ascending=False)
DoseDfSorted06 ==
  /\ page = "p06" /\ pc = "agg"
  /\ \E ord \in SortValuesDesc(entries) : Ordered(ord)

ColorsLoop06 ==
  /\ page = "p06" /\ pc = "color"
  /\ Colored(ColorsTs06(Vals), Colors06(Vals))

PlotFigure06 ==
  /\ page = "p06" /\ pc = "plot"
  /\ Plotted(Figure06(order, Vals, colors))

\* page 03: df.loc[country_name].sort_values(ascending=False)
CountryDataSorted03 ==
  /\ page = "p03" /\ pc = "agg"
  /\ \E ord \in SortValuesDesc(entries) : Ordered(ord)

CreateMbtiColors03 ==
  /\ page = "p03" /\ pc = "color"
  /\ Colored(CreateMbtiTs(Vals), CreateMbtiColors(Vals))

PlotFigure03 ==
  /\ page = "p03" /\ pc = "plot"
  /\ Plotted(Figure03(order, Vals, colors))

\* page 08, rates: rates_df keeps the order of rates_data
RatesDf08 ==
  /\ page = "p08r" /\ pc = "agg"
  /\ Ordered([k \in 1..Len(entries) |-> k])

ApplyGetColor08 ==
  /\ page = "p08r" /\ pc = "color"
  /\ LET top_rate_idx == IdxMax(Vals)
     IN Colored([k \in 1..Len(order) |-> NoT],
                [k \in 1..Len(order) |-> GetColor(k, order[k], top_rate_idx)])

PlotFigureRate08 ==
  /\ page = "p08r" /\ pc = "plot"
  /\ Plotted(Figure08(order, Vals, colors))

\* page 08, cumulative: sort_values(ascending=False).reset_index(drop=True)
FinalCumulativeSorted08 ==
  /\ page = "p08c" /\ pc = "agg"
  /\ \E ord \in SortValuesDesc(entries) : Ordered(ord)

ApplyGetCumulativeColor08 ==
  /\ page = "p08c" /\ pc = "color"
  /\ LET top_cumulative_idx == IdxMax(Vals)
     IN Colored([k \in 1..Len(order) |-> NoT],
                [k \in 1..Len(order) |->
                   GetCumulativeColor(k, order[k], top_cumulative_idx)])

PlotFigureCumul08 ==
  /\ page = "p08c" /\ pc = "plot"
  /\ Plotted(Figure08(order, Vals, colors))

Next ==
  \/ AggSorted04
  \/ CallMakeBlueGradient04
  \/ PlotFigure04
  \/ DoseDfSorted06
  \/ ColorsLoop06
  \/ PlotFigure06
  \/ CountryDataSorted03
  \/ CreateMbtiColors03
  \/ PlotFigure03
  \/ RatesDf08
  \/ ApplyGetColor08
  \/ PlotFigureRate08
  \/ FinalCumulativeSorted08
  \/ ApplyGetCumulativeColor08
  \/ PlotFigureCumul08

Spec == Init /\ [][Next]_vars

---------------------------------------------------------------------------
\* Page 06 (second app): try_read_csv_from_paths and the upload block.

PREFERRED_PATHS ==
  << "/mnt/data/Seoul Metropolitan City_COVID-19 Vaccination Status.csv",
     "./Seoul Metropolitan City_COVID-19 Vaccination Status.csv",
     "./data/Seoul Metropolitan City_COVID-19 Vaccination Status.csv" >>

\* the order the comment above the loop names, not the one of the list
Encodings06_comment == <<"cp949", "euc-kr", "utf-8", "latin1">>

\* for enc in ["utf-8", "cp949", "euc-kr", "latin1"]
Encodings06 == <<"utf-8", "cp949", "euc-kr", "latin1">>

\* the upload block falling through after the second failed read
AfterFailedUpload06_nostop == "loaded"

\* st.error(...); st.stop() after the second failed read of the upload
AfterFailedUpload06 == "stopped"

Say(m) == msgs' = Append(msgs, m)

\* one pass of the inner try: pd.read_csv(p, encoding=enc) returns, or it
\* raises and the loops go on; after the last pair the function returns
\* (None, None, None).  The caller assigns df, used_path, used_enc.
ReadCsvAttempt06 ==
  /\ lp = "p06" /\ lpc = "try_read"
  /\ LET p == PREFERRED_PATHS[pi]
         enc == Encodings06[ei]
     IN /\ tried' = Append(tried, <<p, enc>>)
        /\ IF readable[pi][enc]
           THEN /\ df' = DataFrame(p, enc)
                /\ used_path' = p /\ used_enc' = enc
                /\ lpc' = "returned"
                /\ UNCHANGED <<pi, ei>>
           ELSE /\ UNCHANGED <<df, used_path, used_enc>>
                /\ IF ei < Len(Encodings06)
                   THEN ei' = ei + 1 /\ pi' = pi /\ lpc' = lpc
                   ELSE /\ ei' = 1 /\ pi' = pi + 1
                        /\ lpc' = IF pi < Len(PREFERRED_PATHS) THEN lpc ELSE "returned"
  /\ UNCHANGED <<lp, readable, uploaded, msgs>>
  /\ UNCHANGED <<colourVars, coerceVars>>

\* if df is None: st.warning, st.file_uploader; with no file st.info and
\* st.stop()
UploadPrompt06 ==
  /\ lp = "p06" /\ lpc = "returned"
  /\ IF df.valid
     THEN lpc' = "loaded" /\ UNCHANGED <<uploaded, msgs>>
     ELSE \E up \in {"None", "file"} :
            /\ uploaded' = up
            /\ IF up = "file"
               THEN lpc' = "read_upload" /\ Say("warning")
               ELSE lpc' = "stopped" /\ msgs' = msgs \o <<"warning", "info">>
  /\ UNCHANGED <<lp, readable, pi, ei, tried, df, used_path, used_enc>>
  /\ UNCHANGED <<colourVars, coerceVars>>

\* df = pd.read_csv(uploaded)
ReadUpload06 ==
  /\ lp = "p06" /\ lpc = "read_upload"
  /\ \E ok \in BOOLEAN :
       IF ok
       THEN /\ df' = DataFrame("uploaded_file", "pandas-detect")
            /\ used_path' = "uploaded_file" /\ used_enc' = "pandas-detect"
            /\ lpc' = "loaded"
       ELSE lpc' = "read_upload_cp949" /\ UNCHANGED <<df, used_path, used_enc>>
  /\ UNCHANGED <<lp, readable, pi, ei, tried, uploaded, msgs>>
  /\ UNCHANGED <<colourVars, coerceVars>>

\* uploaded.seek(0); df = pd.read_csv(uploaded, encoding="cp949")
ReadUploadCp949_06 ==
  /\ lp = "p06" /\ lpc = "read_upload_cp949"
  /\ \E ok \in BOOLEAN :
       IF ok
       THEN /\ df' = DataFrame("uploaded_file", "cp949")
            /\ used_path' = "uploaded_file" /\ used_enc' = "cp949"
            /\ lpc' = "loaded"
            /\ UNCHANGED msgs
       ELSE /\ Say("error") /\ lpc' = AfterFailedUpload06
            /\ UNCHANGED <<df, used_path, used_enc>>
  /\ UNCHANGED <<lp, readable, pi, ei, tried, uploaded>>
  /\ UNCHANGED <<colourVars, coerceVars>>

\* st.success(...) and the stage after it
Success06 ==
  /\ lp = "p06" /\ lpc = "loaded"
  /\ Say("success")
  /\ lpc' = "stage"
  /\ UNCHANGED <<lp, readable, pi, ei, tried, df, used_path, used_enc, uploaded>>
  /\ UNCHANGED <<colourVars, coerceVars>>

LoadInit06 ==
  /\ lp = "p06" /\ lpc = "try_read"
  /\ readable \in [1..Len(PREFERRED_PATHS) ->
                     [{Encodings06[k] : k \in 1..Len(Encodings06)} -> BOOLEAN]]
  /\ pi = 1 /\ ei = 1
  /\ tried = <<>> /\ df = NoneDf /\ used_path = "None" /\ used_enc = "None"
  /\ uploaded = "None" /\ msgs = <<>>

---------------------------------------------------------------------------
\* Page 04: the default path, the uploader and the gate before the rendering.

default_path == "/mnt/data/subway.csv"

Encodings04 == <<"utf-8", "cp949">>

\* load_data_from_path and load_data_from_bytes: read as utf-8, on an
\* exception as cp949, then _postprocess, which raises on a missing column;
\* NoneDf stands for the exception leaving the function
LoadData(src, utf8_ok, cp949_ok, columns_ok) ==
  IF ~utf8_ok /\ ~cp949_ok THEN NoneDf
  ELSE IF ~columns_ok THEN NoneDf
  ELSE DataFrame(src, IF utf8_ok THEN Encodings04[1] ELSE Encodings04[2])

\* an except branch that drops what was loaded
AfterFailedUpload04_dropped(loaded_df) == NoneDf

\* except Exception: st.error(...) leaves loaded_df as it is
AfterFailedUpload04(loaded_df) == loaded_df

\* if os.path.exists(default_path): try: loaded_df = load_data_from_path(..)
LoadDefault04 ==
  /\ lp = "p04" /\ lpc = "default"
  /\ \E exists, columns_ok \in BOOLEAN :
       LET got == LoadData(default_path, readable[1]["utf-8"], readable[1]["cp949"],
                           columns_ok)
       IN IF ~exists THEN UNCHANGED <<df, msgs>>
          ELSE IF got.valid THEN df' = got /\ UNCHANGED msgs
          ELSE Say("error") /\ UNCHANGED df
  /\ lpc' = "upload"
  /\ UNCHANGED <<lp, readable, pi, ei, tried, used_path, used_enc, uploaded>>
  /\ UNCHANGED <<colourVars, coerceVars>>

\* uploaded = st.file_uploader(..); try: loaded_df = load_data_from_bytes(..)
Upload04 ==
  /\ lp = "p04" /\ lpc = "upload"
  /\ \E up \in {"None", "file"} : \E utf8_ok, cp949_ok, columns_ok \in BOOLEAN :
       LET got == LoadData("uploaded", utf8_ok, cp949_ok, columns_ok)
       IN /\ uploaded' = up
          /\ IF up = "None" THEN UNCHANGED <<df, msgs>>
             ELSE IF got.valid THEN df' = got /\ UNCHANGED msgs
             ELSE Say("error") /\ df' = AfterFailedUpload04(df)
  /\ lpc' = "gate"
  /\ UNCHANGED <<lp, readable, pi, ei, tried, used_path, used_enc>>
  /\ UNCHANGED <<colourVars, coerceVars>>

\* if loaded_df is None: st.info(..); st.stop()  --  df = loaded_df
Gate04 ==
  /\ lp = "p04" /\ lpc = "gate"
  /\ IF df.valid THEN lpc' = "stage" /\ UNCHANGED msgs
     ELSE lpc' = "stopped" /\ Say("info")
  /\ UNCHANGED <<lp, readable, pi, ei, tried, df, used_path, used_enc, uploaded>>
  /\ UNCHANGED <<colourVars, coerceVars>>

LoadInit04 ==
  /\ lp = "p04" /\ lpc = "default"
  /\ readable \in [1..1 -> [{Encodings04[k] : k \in 1..Len(Encodings04)} -> BOOLEAN]]
  /\ pi = 0 /\ ei = 0
  /\ tried = <<>> /\ df = NoneDf /\ used_path = "None" /\ used_enc = "None"
  /\ uploaded = "None" /\ msgs = <<>>

LoadInit == ColourIdle /\ CoerceIdle /\ (LoadInit06 \/ LoadInit04)

LoadNext ==
  \/ ReadCsvAttempt06
  \/ UploadPrompt06
  \/ ReadUpload06
  \/ ReadUploadCp949_06
  \/ Success06
  \/ LoadDefault04
  \/ Upload04
  \/ Gate04

LoadSpec == LoadInit /\ [][LoadNext]_vars

---------------------------------------------------------------------------
\* Numeric coercion: the cells of one column from the CSV file to the values
\* the ranking and colouring stage receives.

\* a field of the file: a number, an empty field, a text such as "-", or
\* digits with a thousands separator such as "1,000"
Field(form, v) == [form |-> form, v |-> v]
Fields == {Field("num", 0), Field("num", 1), Field("empty", 0),
           Field("text", 0), Field("comma", 1)}

\* a cell of the data frame: a number, NaN, or a string in one of the forms
Num(v) == [kind |-> "num", form |-> "-", v |-> v]
NaN == [kind |-> "nan", form |-> "-", v |-> 0]
Str(form, v) == [kind |-> "str", form |-> form, v |-> v]

Columns ==
  UNION {[1..n -> Fields] : n \in 1..MaxRows}

HasStr(cells) == \E i \in 1..Len(cells) : cells[i].kind = "str"

\* pd.read_csv: a column whose fields are all numbers or empty is numeric
\* with NaN for the empty ones; any other field makes the column object and
\* leaves every non-empty field as the string it is
ReadCsvColumn(fields) ==
  LET numeric == \A i \in 1..Len(fields) : fields[i].form \in {"num", "empty"}
      Cell(f) == IF f.form = "empty" THEN NaN
                 ELSE IF numeric THEN Num(f.v)
                 ELSE IF f.form = "num" THEN Str("digits", f.v)
                 ELSE Str(f.form, f.v)
  IN [i \in 1..Len(fields) |-> Cell(fields[i])]

\* pd.to_numeric(.., errors='coerce')
ToNumeric(c) ==
  IF c.kind = "str" THEN (IF c.form = "digits" THEN Num(c.v) ELSE NaN) ELSE c

\* .fillna(0)
Fillna0(c) == IF c.kind = "nan" THEN Num(0) ELSE c

\* .astype(str).str.replace(',', ''): NaN becomes the string 'nan', a
\* string loses its separators (no cell is the empty string that
\* .replace('', '0') looks for: read_csv reads an empty field as NaN)
AsStrNoComma(c) ==
  IF c.kind = "nan" THEN Str("text", 0)
  ELSE IF c.kind = "str" /\ c.form = "text" THEN c
  ELSE Str("digits", c.v)

\* the columns of page 08 whose name has one of the patterns of numeric_cols
IsNumericCol08(c) == c = "count"

RECURSIVE SumSkipNa(_)
\* Series.sum(): NaN is skipped
SumSkipNa(cells) ==
  IF cells = <<>> THEN 0
  ELSE (IF cells[1].kind = "num" THEN cells[1].v ELSE 0) + SumSkipNa(Tail(cells))

\* sort_values(ascending=False): numbers in descending order, NaN last
SortCellsDesc(cells) ==
  LET Is(c, k, v) == c.kind = k /\ c.v = v
      Hi(c) == Is(c, "num", 1)
      Lo(c) == Is(c, "num", 0)
      Na(c) == c.kind = "nan"
  IN SelectSeq(cells, Hi) \o SelectSeq(cells, Lo) \o SelectSeq(cells, Na)

Reaches(cells) ==
  /\ reaching' = cells
  /\ cpc' = "colour"
  /\ UNCHANGED <<cp, col, raw>>
  /\ UNCHANGED <<colourVars, loadVars>>

StopsBeforeColour ==
  /\ cpc' = "stopped"
  /\ UNCHANGED <<cp, col, raw, reaching>>
  /\ UNCHANGED <<colourVars, loadVars>>

\* page 04: _postprocess coerces both passenger columns, the station totals
\* are their sums
Postprocess04 ==
  /\ cp = "p04" /\ cpc = "load"
  /\ LET Cell(c) == Fillna0(ToNumeric(c))
         read == ReadCsvColumn(raw)
         cells == [i \in 1..Len(read) |-> Cell(read[i])]
     IN Reaches(<<Num(SumSkipNa(cells))>>)

\* page 06: a dose column is coerced and summed; without dose columns the
\* numeric columns are summed as they are
Aggregate06 ==
  /\ cp = "p06" /\ cpc = "load"
  /\ LET read == ReadCsvColumn(raw)
         Cell(c) == Fillna0(ToNumeric(c))
     IN IF col = "dose" THEN Reaches(<<Num(SumSkipNa([i \in 1..Len(read) |-> Cell(read[i])]))>>)
        ELSE IF HasStr(read) THEN Reaches(<<>>)
        ELSE Reaches(<<Num(SumSkipNa(read))>>)

\* page 08: load_data coerces the columns of numeric_cols, fills NaN with 0
\* in every column, and the charts take the first row
LoadData08 ==
  /\ cp = "p08" /\ cpc = "load"
  /\ LET read == ReadCsvColumn(raw)
         Coerced(c) == Fillna0(ToNumeric(AsStrNoComma(c)))
         cells == IF IsNumericCol08(col) THEN [i \in 1..Len(read) |-> Coerced(read[i])]
                  ELSE read
         filled == [i \in 1..Len(cells) |-> Fillna0(cells[i])]
     IN Reaches(<<filled[1]>>)

\* page 03: load_data compares the frame with 0 and 1, which raises on a
\* string and is caught (return None, st.stop()); nothing is coerced
LoadData03 ==
  /\ cp = "p03" /\ cpc = "load"
  /\ LET read == ReadCsvColumn(raw)
     IN IF HasStr(read) THEN StopsBeforeColour
        ELSE Reaches(SortCellsDesc(read))

ColumnsOf(p) ==
  IF p = "p04" THEN {"passengers"}
  ELSE IF p = "p06" THEN {"dose", "other"}
  ELSE IF p = "p08" THEN {"rate", "count"}
  ELSE {"mbti"}

CoerceInit ==
  /\ ColourIdle /\ LoadIdle
  /\ cp \in {"p03", "p04", "p06", "p08"}
  /\ col \in ColumnsOf(cp)
  /\ raw \in Columns
  /\ cpc = "load"
  /\ reaching = <<>>

CoerceNext ==
  \/ Postprocess04
  \/ Aggregate06
  \/ LoadData08
  \/ LoadData03

CoerceSpec == CoerceInit /\ [][CoerceNext]_vars

---------------------------------------------------------------------------
\* What the claims speak of.

Done == pc = "done"

\* the colour computation has ended (with its colours or with an exception)
Coloured == pc \in {"plot", "done", "failed"}

\* the number of entries handed to the colour computation
N == Len(order)

Accent ==
  IF page = "p04" THEN Red04
  ELSE IF page = "p06" THEN Red06
  ELSE IF page = "p03" THEN Crimson03
  ELSE Red08

AccentAt == {k \in DOMAIN colors : colors[k] = Accent}
MaxAt == {k \in DOMAIN order : Vals[k] = SeqMax(Vals)}

\* the non-top entries: those an interpolation parameter is computed for
Remaining == {k \in DOMAIN ts : ts[k].calc}

Abs(a) == IF a >= 0 THEN a ELSE 0 - a

\* the quotient t is exactly 1/2
IsHalf(t) == t.eps = 0 /\ 2 * t.num = t.den

\* c is an integer nearest to a / b (b > 0)
IsNearest(c, a, b) == 2 * Abs(c * b - a) <= b

\* C1: for every input of at least 2 entries, on every page, exactly one
\* entry is assigned the accent colour and it is an entry achieving the
\* maximum value, also when several entries share the maximum.
C1_ExactlyOneAccent ==
  (Coloured /\ Len(entries) >= 2) =>
    /\ Cardinality(AccentAt) = 1
    /\ AccentAt \subseteq MaxAt

\* C2: when several entries tie for the maximum, the entry that receives
\* the accent colour is the first one, in the order handed to the colour
\* computation, that achieves the maximum, and no later one.
C2_FirstOfTiedMaxima ==
  (Coloured /\ Cardinality(MaxAt) >= 2) => AccentAt = {IdxMax(Vals)}

\* C3: for an input of exactly one entry the colour assignment is exactly
\* the accent colour, no interpolation parameter is computed and nothing
\* fails, whatever the value and the page.
C3_SingleEntryAccent ==
  (Coloured /\ Len(entries) = 1) =>
    /\ colors = <<Accent>>
    /\ Remaining = {}
    /\ err = "none"

C3_Witness ==
  /\ Done /\ page = "p06" /\ Len(entries) = 1 /\ entries[1] < 0
  /\ chart.marker_color = <<Red06>>

C5_TiedRemainingMidpoint ==
  (/\ Coloured /\ page \in {"p03", "p06"}
   /\ \A j, k \in Remaining : Vals[j] = Vals[k]) =>
    /\ err = "none"
    /\ \A k \in Remaining : IsHalf(ts[k])

\* C6: in rank-based interpolation, for every n >= 2 the i-th remaining
\* entry gets t = i / max(1, count_remaining - 1), count_remaining = n - 1;
\* with count_remaining = 1 the divisor is 1 and t = 0; no division by zero.
C6_RankParameter ==
  (Coloured /\ page = "p04" /\ N >= 2) =>
    LET count_remaining == N - 1
    IN /\ err = "none"
       /\ Remaining = 2..N
       /\ \A i \in 0..(count_remaining - 1) :
            /\ ts[i + 2].den + ts[i + 2].eps > 0
            /\ ts[i + 2].eps = 0
            /\ ts[i + 2].num * Max2(1, count_remaining - 1) = i * ts[i + 2].den
       /\ (count_remaining = 1 => ts[2].num = 0 /\ ts[2].den = 1)

C6_Witness ==
  /\ Done /\ page = "p04" /\ N = 2
  /\ ts[2] = T(0, 1, 0) /\ colors[2] = Hex(0, 51, 204)

\* C7: in rank-based interpolation, for every n >= 2 every channel of the
\* non-top colours moves weakly from its start value toward its end value
\* along the ranks and never reverses.
C7_MonotonicChannels ==
  (Coloured /\ page = "p04" /\ N >= 2) =>
    /\ pc # "failed"
    /\ \A ch \in 1..3 :
         LET dir == End04[ch] - Start04[ch]
         IN /\ \A k \in 2..N :
                 /\ (colors[k].c[ch] - Start04[ch]) * dir >= 0
                 /\ (End04[ch] - colors[k].c[ch]) * dir >= 0
            /\ \A k \in 2..(N - 1) :
                 (colors[k + 1].c[ch] - colors[k].c[ch]) * dir >= 0

C7_Witness ==
  /\ Done /\ page = "p04" /\ N >= 4
  /\ \A k \in 2..(N - 1) : \A ch \in 1..3 : colors[k].c[ch] < colors[k + 1].c[ch]

\* C8: every colour channel emitted for a non-top entry is an integer in
\* 0..255: by make_blue_gradient for every n, and the blue level of page 06
\* for every total that differs from max_total, negative totals included.
C8_ChannelsInRange ==
  (Coloured /\ page \in {"p04", "p06"}) =>
    \A k \in Remaining \cap DOMAIN colors :
      \A ch \in DOMAIN colors[k].c : colors[k].c[ch] \in 0..255

\* C9: each channel of a non-top colour of make_blue_gradient is
\* start + (end - start) * t rounded to the nearest integer.
C9_RoundedToNearest ==
  (Coloured /\ page = "p04") =>
    \A k \in Remaining \cap DOMAIN colors : \A ch \in 1..3 :
      IsNearest(colors[k].c[ch],
                Start04[ch] * ts[k].den + (End04[ch] - Start04[ch]) * ts[k].num,
                ts[k].den)

SetMin(S) == CHOOSE m \in S : \A x \in S : m <= x
SetMax(S) == CHOOSE m \in S : \A x \in S : x <= m

\* the quotient t = num / (den + eps * 1e-9) is exactly a / b (b > 0; the
\* integers are far below 1e9, so a * eps * 1e-9 is an integer only if 0)
TEq(t, a, b) == t.num * b = a * t.den /\ a * t.eps = 0

\* C11: in value-based interpolation (pages 03 and 06), when the remaining
\* (non-top) values are not all equal, every remaining entry gets
\* t = (value - min_v) / (max_v - min_v), min_v and max_v taken over the
\* remaining entries: exactly 1 for the highest and 0 for the lowest.
C11_MinMaxNormalised ==
  (/\ Coloured /\ page \in {"p03", "p06"}
   /\ \E j, k \in Remaining : Vals[j] # Vals[k]) =>
    LET min_v == SetMin({Vals[k] : k \in Remaining})
        max_v == SetMax({Vals[k] : k \in Remaining})
    IN /\ err = "none"
       /\ \A k \in Remaining : TEq(ts[k], Vals[k] - min_v, max_v - min_v)

\* C16: make_blue_gradient(n) returns exactly n colours for every n >= 0;
\* for n >= 2 the second colour is the start blue #0033cc and for n >= 3
\* the last colour is the end blue #cce5ff.
C16_GradientEndpoints ==
  (Coloured /\ page = "p04") =>
    /\ err = "none"
    /\ Len(colors) = N
    /\ (N >= 2 => colors[2] = Hex(0, 51, 204))
    /\ (N >= 3 => colors[N] = Hex(204, 229, 255))

C16_Witness ==
  /\ Done /\ page = "p04" /\ N = MaxLen
  /\ colors[2] = Hex(0, 51, 204) /\ colors[N] = Hex(204, 229, 255)
  /\ \A k \in 3..(N - 1) : colors[k] \notin {colors[2], colors[N]}

---------------------------------------------------------------------------
\* The loading stage of page 06.

\* the order C13 names: the paths in list order, and for each path the
\* encodings utf-8, cp949, euc-kr, latin1
ClaimedEncodings == <<"utf-8", "cp949", "euc-kr", "latin1">>

ClaimedPathOf(k) == ((k - 1) \div Len(ClaimedEncodings)) + 1
ClaimedEncOf(k) == ClaimedEncodings[((k - 1) % Len(ClaimedEncodings)) + 1]

ClaimedPairs ==
  [k \in 1..(Len(PREFERRED_PATHS) * Len(ClaimedEncodings)) |->
     <<PREFERRED_PATHS[ClaimedPathOf(k)], ClaimedEncOf(k)>>]

\* the k-th read in the claimed order succeeds
ReadSucceeds(k) == readable[ClaimedPathOf(k)][ClaimedEncOf(k)]

SucceedingReads == {k \in DOMAIN ClaimedPairs : ReadSucceeds(k)}

BlockOver06 == lp = "p06" /\ lpc \in {"loaded", "stage", "stopped"}

\* C14: on page 06 the stage after the load/upload block is reached only
\* with a valid df; when no preferred path can be read and no file is
\* uploaded, or the uploaded file fails both reads, the script stops
\* before that stage.
C14_StageHasValidDf ==
  /\ (lp = "p06" /\ lpc \in {"loaded", "stage"}) =>
       /\ df.valid /\ used_path = df.src /\ used_enc = df.enc
       /\ (df.src = "uploaded_file" => uploaded = "file" /\ SucceedingReads = {})
       /\ (df.src # "uploaded_file" => SucceedingReads # {})
  /\ (lp = "p06" /\ lpc = "stage") => msgs[Len(msgs)] = "success"
  /\ (/\ BlockOver06 /\ SucceedingReads = {}
      /\ \/ uploaded = "None"
         \/ \E k \in DOMAIN msgs : msgs[k] = "error") =>
       /\ lpc = "stopped" /\ ~df.valid
       /\ \A k \in DOMAIN msgs : msgs[k] # "success"

C14_Witness ==
  /\ lp = "p06" /\ lpc = "stopped" /\ uploaded = "file"
  /\ msgs = <<"warning", "error">> /\ df = NoneDf

---------------------------------------------------------------------------
\* The loading stage of page 04.

\* C15: on page 04 the filtering/aggregation/rendering stage is reached
\* only with loaded_df not None; a successfully parsed upload replaces what
\* the default path gave, and a failed upload reports an error and leaves
\* loaded_df unchanged, so loaded default data is never discarded.
C15_UploadKeepsLoaded ==
  /\ []((lp = "p04" /\ lpc = "stage") => df.valid)
  /\ []((lp = "p04" /\ lpc = "stopped") => ~df.valid)
  /\ [][(lp = "p04" /\ lpc = "upload") =>
          /\ (df.valid => df'.valid)
          /\ (uploaded' = "None" => df' = df /\ msgs' = msgs)
          /\ (uploaded' = "file" =>
                \/ df'.valid /\ df'.src = "uploaded" /\ msgs' = msgs
                \/ df' = df /\ msgs' = Append(msgs, "error"))]_vars

C15_Witness ==
  /\ lp = "p04" /\ lpc = "stage"
  /\ df.valid /\ df.src = default_path
  /\ uploaded = "file" /\ msgs = <<"error">>

---------------------------------------------------------------------------
\* Numeric coercion before the colours.

\* C12: on every page every value that reaches the colour computation is
\* a finite number: each non-numeric or missing cell of a column used for
\* ranking has been replaced by 0 by the loading and aggregation stage, for
\* every column the page reads, the rate columns of page 08 included.
C12_OnlyNumbersReachColour ==
  cpc = "colour" => \A i \in 1..Len(reaching) : reaching[i].kind = "num"

====
